---- MODULE Spec2Model ----
(***************************************************************************)
(* A model of the compiled graph storage engine of sage/graphs/base:       *)
(* CGraph (vertex bitset, counters, degrees), the CGraphBackend label      *)
(* index, and the traversal and path algorithms of c_graph.pyx.            *)
(*                                                                         *)
(* The arc storage itself (add_arc, del_all_arcs, the *_unsafe primitives, *)
(* realloc) lives in the sparse and dense subclasses; those are modelled   *)
(* from the storage contract: a multiset of arcs for the sparse kind, a    *)
(* set of arcs for the dense kind.                                         *)
(***************************************************************************)
EXTENDS Integers, Sequences, FiniteSets, TLC

(***************************************************************************)
(* Bounds of the model.                                                    *)
(***************************************************************************)
MaxSize == 3      \* largest allocation (active_vertices.size) explored
MaxArcs == 3      \* largest num_arcs explored by the mutation actions
MaxLabel == 2     \* integer labels are -1 .. MaxLabel
NumObj == 1       \* number of non-integer (hashable) labels
MaxVerts == 3     \* allocation of the graphs the algorithms are run on
MaxEdges == 3     \* number of arcs of the graphs the algorithms are run on

VARIABLES
    kind,           \* "sparse" or "dense": which subclass stores the arcs
    mode,           \* "CGraph": a bare CGraph is driven; "Backend": a CGraphBackend
    cg,             \* the CGraph (Backend._cg)
    cg_rev,         \* Backend._cg_rev, or NoGraph
    directed,       \* Backend._directed
    vertex_ints,    \* Backend.vertex_ints : label -> id
    vertex_labels,  \* Backend.vertex_labels : id -> label
    order,          \* rank of each id in the enumeration order of neighbours
    edge_labels,    \* the labels (weights) of the arcs, by pair of ids
    last,           \* the last call: its name, argument and outcome
    alg             \* state of the algorithm being run (iterator, result)

vars == <<kind, mode, cg, cg_rev, directed, vertex_ints, vertex_labels,
          edge_labels, order, last, alg>>

(***************************************************************************)
(* Values.                                                                 *)
(***************************************************************************)
\* Python objects used as vertex labels: integers and other hashables.
IntL(k) == <<"int", k>>
ObjL(k) == <<"obj", k>>
None == <<"none", 0>>
IsInt(u) == u[1] = "int"

IntLabels == {IntL(k) : k \in (0 - 1)..MaxLabel}
ObjLabels == {ObjL(k) : k \in 1..NumObj}
Labels == IntLabels \cup ObjLabels

NoGraph == [size |-> 0 - 1]
EmptyMap == [x \in {} |-> 0]

Ids == 0..(MaxSize - 1)

Min(S) == CHOOSE x \in S : \A y \in S : x <= y
Max(S) == CHOOSE x \in S : \A y \in S : x >= y

RECURSIVE SumOver(_, _)
SumOver(f, S) ==
    IF S = {} THEN 0
    ELSE LET x == CHOOSE y \in S : TRUE IN f[x] + SumOver(f, S \ {x})

\* The elements of S as a list, by increasing rank.
RECURSIVE SeqBy(_, _)
SeqBy(S, rk) ==
    IF S = {} THEN <<>>
    ELSE LET m == CHOOSE x \in S : \A y \in S : rk[x] <= rk[y]
         IN <<m>> \o SeqBy(S \ {m}, rk)

Range(s) == {s[i] : i \in 1..Len(s)}

(***************************************************************************)
(* bitset.pxi primitives.                                                  *)
(***************************************************************************)
bitset_in(bits, n) == n \in bits

bitset_first_in_complement(bits, size) ==
    IF \E i \in 0..(size - 1) : i \notin bits
    THEN Min({i \in 0..(size - 1) : i \notin bits})
    ELSE 0 - 1

(***************************************************************************)
(* CGraph: construction and the storage primitives of the subclasses.      *)
(***************************************************************************)
\* SparseGraph(nverts, extra_vertices) / DenseGraph(nverts, extra_vertices)
NewGraph(nverts, extra) ==
    LET total == nverts + extra IN
    [ size            |-> total,
      active_vertices |-> 0..(nverts - 1),
      num_verts       |-> nverts,
      num_arcs        |-> 0,
      in_degrees      |-> [i \in 0..(total - 1) |-> 0],
      out_degrees     |-> [i \in 0..(total - 1) |-> 0],
      arcs            |-> [p \in (0..(total - 1)) \X (0..(total - 1)) |-> 0] ]

\* Variant: the allocation is cut to total whatever ids are active.
realloc_cuts_off(G, total) ==
    LET old == 0..(G.size - 1)
        new == 0..(total - 1)
    IN [g |-> [G EXCEPT
            !.size = total,
            !.active_vertices = @ \cap new,
            !.num_verts = Cardinality(G.active_vertices \cap new),
            !.in_degrees = [i \in new |-> IF i \in old THEN G.in_degrees[i] ELSE 0],
            !.out_degrees = [i \in new |-> IF i \in old THEN G.out_degrees[i] ELSE 0],
            !.arcs = [p \in new \X new |->
                         IF p[1] \in old /\ p[2] \in old THEN G.arcs[p] ELSE 0]],
        ret |-> 0]

\* realloc(total): -1 and no change when an active id would be cut off.
realloc(G, total) ==
    IF \E v \in G.active_vertices : v >= total
    THEN [g |-> G, ret |-> 0 - 1]
    ELSE LET old == 0..(G.size - 1)
             new == 0..(total - 1)
         IN [g |-> [G EXCEPT
                 !.size = total,
                 !.in_degrees = [i \in new |-> IF i \in old THEN G.in_degrees[i] ELSE 0],
                 !.out_degrees = [i \in new |-> IF i \in old THEN G.out_degrees[i] ELSE 0],
                 !.arcs = [p \in new \X new |->
                              IF p[1] \in old /\ p[2] \in old THEN G.arcs[p] ELSE 0]],
             ret |-> 0]

has_arc_unsafe(G, u, v) == G.arcs[<<u, v>>] > 0

\* add_arc_unsafe: one more parallel arc (sparse), or set the bit (dense).
add_arc_unsafe(G, u, v, k) ==
    IF k = "dense" /\ G.arcs[<<u, v>>] > 0 THEN G
    ELSE [G EXCEPT !.arcs[<<u, v>>] = @ + 1,
                   !.out_degrees[u] = @ + 1,
                   !.in_degrees[v] = @ + 1,
                   !.num_arcs = @ + 1]

\* del_arc_unsafe: removes every arc from u to v.
del_arc_unsafe(G, u, v) ==
    LET m == G.arcs[<<u, v>>] IN
    [G EXCEPT !.arcs[<<u, v>>] = 0,
              !.out_degrees[u] = @ - m,
              !.in_degrees[v] = @ - m,
              !.num_arcs = @ - m]

\* out_neighbors_unsafe / in_neighbors_unsafe: each neighbour once, in the
\* enumeration order of the store.
out_neighbors(G, u, rk) ==
    SeqBy({v \in 0..(G.size - 1) : G.arcs[<<u, v>>] > 0}, rk)
in_neighbors(G, v, rk) ==
    SeqBy({u \in 0..(G.size - 1) : G.arcs[<<u, v>>] > 0}, rk)

(***************************************************************************)
(* CGraph: the vertex functions of c_graph.pyx.                            *)
(***************************************************************************)
has_vertex(G, n) ==
    n >= 0 /\ n < G.size /\ bitset_in(G.active_vertices, n)

\* Variant: counts the vertex even when its bit is already set.
add_vertex_unsafe_recount(G, k) ==
    LET k1 == IF k = 0 - 1 THEN bitset_first_in_complement(G.active_vertices, G.size)
              ELSE IF G.size <= k THEN 0 - 1
              ELSE k
    IN IF k1 # 0 - 1
       THEN [g |-> [G EXCEPT !.num_verts = @ + 1,
                             !.active_vertices = @ \cup {k1}],
             ret |-> k1]
       ELSE [g |-> G, ret |-> k1]

add_vertex_unsafe(G, k) ==
    LET k1 == IF k = 0 - 1 THEN bitset_first_in_complement(G.active_vertices, G.size)
              ELSE IF G.size <= k THEN 0 - 1
              ELSE k
    IN IF k1 # 0 - 1
       THEN [g |-> [G EXCEPT
                !.num_verts = IF ~bitset_in(G.active_vertices, k1) THEN @ + 1 ELSE @,
                !.active_vertices = @ \cup {k1}],
             ret |-> k1]
       ELSE [g |-> G, ret |-> k1]

\* Variant: only ids past twice the allocation are refused.
add_vertex_past_only(G, k) ==
    IF k > 2 * G.size
    THEN [g |-> G, ret |-> 0 - 1, exc |-> "RuntimeError"]
    ELSE LET G1 == IF k >= G.size \/ (k = 0 - 1 /\ G.size = G.num_verts)
                   THEN realloc(G, 2 * G.size).g
                   ELSE G
             r == add_vertex_unsafe(G1, k)
         IN [g |-> r.g, ret |-> r.ret, exc |-> "none"]

\* Variant: the allocation grows only for k = -1.
add_vertex_no_growth(G, k) ==
    IF k >= 2 * G.size
    THEN [g |-> G, ret |-> 0 - 1, exc |-> "RuntimeError"]
    ELSE LET G1 == IF k = 0 - 1 /\ G.size = G.num_verts
                   THEN realloc(G, 2 * G.size).g
                   ELSE G
             r == add_vertex_unsafe(G1, k)
         IN [g |-> r.g, ret |-> r.ret, exc |-> "none"]

\* Variant: k = -1 always grows the allocation.
add_vertex_auto_grows(G, k) ==
    IF k >= 2 * G.size
    THEN [g |-> G, ret |-> 0 - 1, exc |-> "RuntimeError"]
    ELSE LET G1 == IF k >= G.size \/ k = 0 - 1
                   THEN realloc(G, 2 * G.size).g
                   ELSE G
             r == add_vertex_unsafe(G1, k)
         IN [g |-> r.g, ret |-> r.ret, exc |-> "none"]

\* CGraph.add_vertex(k): exc is "RuntimeError" for the sizing error.
add_vertex(G, k) ==
    IF k >= 2 * G.size
    THEN [g |-> G, ret |-> 0 - 1, exc |-> "RuntimeError"]
    ELSE LET G1 == IF k >= G.size \/ (k = 0 - 1 /\ G.size = G.num_verts)
                   THEN realloc(G, 2 * G.size).g
                   ELSE G
             r == add_vertex_unsafe(G1, k)
         IN [g |-> r.g, ret |-> r.ret, exc |-> "none"]

RECURSIVE del_arcs_in(_, _, _)
del_arcs_in(G, nbrs, v) ==
    IF nbrs = <<>> THEN G
    ELSE del_arcs_in(del_arc_unsafe(G, Head(nbrs), v), Tail(nbrs), v)

RECURSIVE del_arcs_out(_, _, _)
del_arcs_out(G, v, nbrs) ==
    IF nbrs = <<>> THEN G
    ELSE del_arcs_out(del_arc_unsafe(G, v, Head(nbrs)), v, Tail(nbrs))

\* Variant: the arcs leaving v are not deleted.
del_vertex_unsafe_keep_out(G, v, rk) ==
    LET size0 == IF G.in_degrees[v] > 0 THEN G.in_degrees[v] ELSE 0
        size == IF G.out_degrees[v] > size0 THEN G.out_degrees[v] ELSE size0
        G1 == IF size > 0 THEN del_arcs_in(G, in_neighbors(G, v, rk), v) ELSE G
    IN [G1 EXCEPT !.num_verts = @ - 1,
                  !.active_vertices = @ \ {v}]

\* Variant: the neighbour buffer is sized by the in-degree alone, so a
\* vertex with out-arcs only keeps them.
del_vertex_unsafe_in_size(G, v, rk) ==
    LET size == IF G.in_degrees[v] > 0 THEN G.in_degrees[v] ELSE 0
        G1 == IF size > 0 THEN del_arcs_in(G, in_neighbors(G, v, rk), v) ELSE G
        G2 == IF size > 0 THEN del_arcs_out(G1, v, out_neighbors(G1, v, rk)) ELSE G
    IN [G2 EXCEPT !.num_verts = @ - 1,
                  !.active_vertices = @ \ {v}]

del_vertex_unsafe(G, v, rk) ==
    LET size0 == IF G.in_degrees[v] > 0 THEN G.in_degrees[v] ELSE 0
        size == IF G.out_degrees[v] > size0 THEN G.out_degrees[v] ELSE size0
        G1 == IF size > 0 THEN del_arcs_in(G, in_neighbors(G, v, rk), v) ELSE G
        G2 == IF size > 0 THEN del_arcs_out(G1, v, out_neighbors(G1, v, rk)) ELSE G
    IN [G2 EXCEPT !.num_verts = @ - 1,
                  !.active_vertices = @ \ {v}]

\* Variant: any id of the allocation is deleted, active or not.
del_vertex_in_range(G, v, rk) ==
    IF v >= 0 /\ v < G.size THEN del_vertex_unsafe(G, v, rk) ELSE G

del_vertex(G, v, rk) ==
    IF has_vertex(G, v) THEN del_vertex_unsafe(G, v, rk) ELSE G

verts(G) == {i \in 0..(G.size - 1) : bitset_in(G.active_vertices, i)}

\* add_arc / del_all_arcs of the subclasses: both ends are checked first
\* (check_vertex raises RuntimeError).
add_arc(G, u, v, k) ==
    IF has_vertex(G, u) /\ has_vertex(G, v)
    THEN [g |-> add_arc_unsafe(G, u, v, k), exc |-> "none"]
    ELSE [g |-> G, exc |-> "RuntimeError"]

del_all_arcs(G, u, v) ==
    IF has_vertex(G, u) /\ has_vertex(G, v)
    THEN [g |-> del_arc_unsafe(G, u, v), exc |-> "none"]
    ELSE [g |-> G, exc |-> "RuntimeError"]

(***************************************************************************)
(* The label index of CGraphBackend.                                       *)
(***************************************************************************)
Put(f, k, v) == [x \in (DOMAIN f) \cup {k} |-> IF x = k THEN v ELSE f[x]]
Drop(f, k) == [x \in (DOMAIN f) \ {k} |-> f[x]]

\* Variant: an integer label takes its own id even when vertex_labels
\* already gives that id to another label.
get_vertex_own_id(u, vi, vl, G) ==
    IF u \in DOMAIN vi THEN vi[u]
    ELSE IF ~IsInt(u) THEN 0 - 1
    ELSE IF u[2] < 0 \/ u[2] >= G.size THEN 0 - 1
    ELSE u[2]

\* "try: u_int = u" succeeds for integers only.
get_vertex(u, vi, vl, G) ==
    IF u \in DOMAIN vi THEN vi[u]
    ELSE IF ~IsInt(u) THEN 0 - 1
    ELSE IF u[2] < 0 \/ u[2] >= G.size \/ u[2] \in DOMAIN vl THEN 0 - 1
    ELSE u[2]

vertex_label(u_int, vi, vl, G) ==
    IF u_int \in DOMAIN vl THEN vl[u_int]
    ELSE IF bitset_in(G.active_vertices, u_int) THEN IntL(u_int)
    ELSE None

\* B is the backend: [cg, cg_rev, vertex_ints, vertex_labels].
RECURSIVE check_vertex(_, _, _)
check_vertex(u, B, reverse) ==
    LET u_int == get_vertex(u, B.vertex_ints, B.vertex_labels, B.cg)
        free == bitset_first_in_complement(B.cg.active_vertices, B.cg.size)
    IN IF u_int # 0 - 1
       THEN IF ~bitset_in(B.cg.active_vertices, u_int)
            THEN [b |-> [B EXCEPT
                     !.cg = [@ EXCEPT !.active_vertices = @ \cup {u_int},
                                      !.num_verts = @ + 1],
                     !.cg_rev = IF reverse
                                THEN [@ EXCEPT !.active_vertices = @ \cup {u_int},
                                               !.num_verts = @ + 1]
                                ELSE @],
                  ret |-> u_int]
            ELSE [b |-> B, ret |-> u_int]
       ELSE IF free = 0 - 1
       THEN check_vertex(u,
                [B EXCEPT !.cg = realloc(@, 2 * @.size).g,
                          !.cg_rev = IF reverse THEN realloc(@, 2 * @.size).g ELSE @],
                reverse)
       ELSE [b |-> [B EXCEPT
                !.vertex_labels = Put(@, free, u),
                !.vertex_ints = Put(@, u, free),
                !.cg = add_vertex(@, free).g,
                !.cg_rev = IF reverse THEN add_vertex(@, free).g ELSE @],
             ret |-> free]

Backend_has_vertex(v, B) ==
    LET v_int == get_vertex(v, B.vertex_ints, B.vertex_labels, B.cg)
    IN IF v_int = 0 - 1 THEN FALSE
       ELSE IF ~bitset_in(B.cg.active_vertices, v_int) THEN FALSE
       ELSE TRUE

\* The loop of add_vertex(None): the integer names it can stop at.  The test
\* bitset_in(active_vertices, name) is a read outside the bitset once
\* name >= size; there the loop may stop or go on.
NoneNameTaken(n, B) ==
    IntL(n) \in DOMAIN B.vertex_ints
    \/ (n \notin DOMAIN B.vertex_labels /\ bitset_in(B.cg.active_vertices, n))
NoneNames(B) ==
    LET free == {n \in 0..MaxLabel : ~NoneNameTaken(n, B)}
    IN IF free = {} THEN {}
       ELSE IF Min(free) < B.cg.size THEN {Min(free)}
       ELSE free

\* Variant: the label is not entered in vertex_ints.
Backend_add_vertex_unnamed(name, B, reverse) ==
    [check_vertex(name, B, reverse).b EXCEPT !.vertex_ints = B.vertex_ints]

Backend_add_vertex(name, B, reverse) == check_vertex(name, B, reverse).b

\* Variant: the vertex is deleted from the forward graph only.
Backend_del_vertex_forward_only(v, B, rk) ==
    IF ~Backend_has_vertex(v, B) THEN B
    ELSE LET v_int == get_vertex(v, B.vertex_ints, B.vertex_labels, B.cg)
             B1 == [B EXCEPT !.cg = del_vertex(@, v_int, rk)]
         IN IF v_int \in DOMAIN B.vertex_labels
            THEN [B1 EXCEPT !.vertex_ints = Drop(@, v),
                            !.vertex_labels = Drop(@, v_int)]
            ELSE B1

Backend_del_vertex(v, B, rk) ==
    IF ~Backend_has_vertex(v, B) THEN B
    ELSE LET v_int == get_vertex(v, B.vertex_ints, B.vertex_labels, B.cg)
             B1 == [B EXCEPT !.cg = del_vertex(@, v_int, rk),
                             !.cg_rev = IF @ # NoGraph
                                        THEN del_vertex(@, v_int, rk) ELSE @]
         IN IF v_int \in DOMAIN B.vertex_labels
            THEN [B1 EXCEPT !.vertex_ints = Drop(@, v),
                            !.vertex_labels = Drop(@, v_int)]
            ELSE B1

\* iterator_verts(None)
iterator_verts(B) ==
    (DOMAIN B.vertex_ints) \cup
    {IntL(i) : i \in {j \in 0..(B.cg.size - 1) :
                        j \notin DOMAIN B.vertex_labels
                        /\ bitset_in(B.cg.active_vertices, j)}}

\* Variant: id i keeps translating back to the old label.
relabel_old_names(perm, B) ==
    LET V == iterator_verts(B)
        id(v) == get_vertex(v, B.vertex_ints, B.vertex_labels, B.cg)
        src(l) == CHOOSE v \in V : perm[v] = l
        dst(i) == CHOOSE v \in V : id(v) = i
    IN [B EXCEPT
          !.vertex_ints = [l \in {perm[v] : v \in V} |-> id(src(l))],
          !.vertex_labels = [i \in {id(v) : v \in V} |-> dst(i)]]

\* relabel(perm), perm one-to-one on the vertices
relabel(perm, B) ==
    LET V == iterator_verts(B)
        id(v) == get_vertex(v, B.vertex_ints, B.vertex_labels, B.cg)
        src(l) == CHOOSE v \in V : perm[v] = l
        dst(i) == CHOOSE v \in V : id(v) = i
    IN [B EXCEPT
          !.vertex_ints = [l \in {perm[v] : v \in V} |-> id(src(l))],
          !.vertex_labels = [i \in {id(v) : v \in V} |-> perm[dst(i)]]]

(***************************************************************************)
(* The graph under mutation: a bare CGraph, or a backend with its labels.  *)
(***************************************************************************)
Backend == [cg |-> cg, cg_rev |-> cg_rev,
            vertex_ints |-> vertex_ints, vertex_labels |-> vertex_labels]
Reverse == directed /\ cg_rev # NoGraph

Identity == [i \in 0..(2 * MaxSize) |-> i]
\* A call record: name, argument, exception, return value, and the size,
\* num_verts and num_arcs of the forward graph when the call was made.
Call(op, arg, exc, ret) ==
    [op |-> op, arg |-> arg, exc |-> exc, ret |-> ret,
     pre_size |-> cg.size, pre_verts |-> cg.num_verts, pre_arcs |-> cg.num_arcs]
Idle == [op |-> "none"]

Init ==
    /\ kind \in {"sparse", "dense"}
    /\ mode \in {"CGraph", "Backend"}
    /\ directed \in BOOLEAN
    /\ mode = "CGraph" => directed
    /\ \E n \in 0..2, e \in 0..1 :
          /\ n + e >= 1
          /\ cg = NewGraph(n, e)
          /\ cg_rev = IF mode = "Backend" /\ directed /\ kind = "sparse"
                      THEN NewGraph(n, e) ELSE NoGraph
    /\ vertex_ints = EmptyMap
    /\ vertex_labels = EmptyMap
    /\ edge_labels = EmptyMap
    /\ order = Identity
    /\ last = [op |-> "init", arg |-> <<>>, exc |-> "none", ret |-> 0,
               pre_size |-> 0, pre_verts |-> 0, pre_arcs |-> 0]
    /\ alg = Idle

Frame == UNCHANGED <<kind, mode, directed, edge_labels, order, alg>>
NoLabels == UNCHANGED <<cg_rev, vertex_ints, vertex_labels>>

CG_add_vertex ==
    /\ mode = "CGraph"
    /\ \E k \in (0 - 1)..(2 * cg.size + 1) :
          LET r == add_vertex(cg, k) IN
          /\ r.g.size <= MaxSize
          /\ cg' = r.g
          /\ last' = Call("add_vertex", <<k>>, r.exc, r.ret)
    /\ Frame /\ NoLabels

CG_del_vertex ==
    /\ mode = "CGraph"
    /\ \E v \in (0 - 1)..cg.size :
          /\ cg' = del_vertex(cg, v, order)
          /\ last' = Call("del_vertex", <<v>>, "none", 0)
    /\ Frame /\ NoLabels

CG_add_arc ==
    /\ mode = "CGraph"
    /\ cg.num_arcs < MaxArcs
    /\ \E u \in 0..(cg.size - 1), v \in 0..(cg.size - 1) :
          LET r == add_arc(cg, u, v, kind) IN
          /\ cg' = r.g
          /\ last' = Call("add_arc", <<>>, r.exc, 0)
    /\ Frame /\ NoLabels

CG_del_all_arcs ==
    /\ mode = "CGraph"
    /\ \E u \in 0..(cg.size - 1), v \in 0..(cg.size - 1) :
          LET r == del_all_arcs(cg, u, v) IN
          /\ cg' = r.g
          /\ last' = Call("del_all_arcs", <<>>, r.exc, 0)
    /\ Frame /\ NoLabels

CG_realloc ==
    /\ mode = "CGraph"
    /\ \E total \in 1..MaxSize :
          LET r == realloc(cg, total) IN
          /\ cg' = r.g
          /\ last' = Call("realloc", <<total>>, "none", r.ret)
    /\ Frame /\ NoLabels

SetBackend(B) ==
    /\ cg' = B.cg
    /\ cg_rev' = B.cg_rev
    /\ vertex_ints' = B.vertex_ints
    /\ vertex_labels' = B.vertex_labels

B_add_vertex ==
    /\ mode = "Backend"
    /\ \E name \in Labels \cup {None} :
          \E nm \in (IF name = None THEN {IntL(n) : n \in NoneNames(Backend)}
                     ELSE {name}) :
             LET B == Backend_add_vertex(nm, Backend, Reverse) IN
             /\ B.cg.size <= MaxSize
             /\ SetBackend(B)
             /\ last' = Call("Backend.add_vertex", name, "none", 0)
    /\ Frame

B_del_vertex ==
    /\ mode = "Backend"
    /\ \E v \in Labels :
          /\ SetBackend(Backend_del_vertex(v, Backend, order))
          /\ last' = Call("Backend.del_vertex", v, "none", 0)
    /\ Frame

\* perm renames one current label a to la and keeps the rest; when la is a
\* current label too, perm swaps the two.  Any one-to-one relabelling is a
\* sequence of these.
RelabelPerms ==
    LET V == iterator_verts(Backend) IN
    {[v \in V |-> IF v = a THEN la ELSE IF v = la THEN a ELSE v] :
        a \in V, la \in Labels}

B_relabel ==
    /\ mode = "Backend"
    /\ \E perm \in RelabelPerms :
          /\ SetBackend(relabel(perm, Backend))
          /\ last' = Call("Backend.relabel", <<>>, "none", 0)
    /\ Frame

Next ==
    \/ CG_add_vertex
    \/ CG_del_vertex
    \/ CG_add_arc
    \/ CG_del_all_arcs
    \/ CG_realloc
    \/ B_add_vertex
    \/ B_del_vertex
    \/ B_relabel

Spec == Init /\ [][Next]_vars

(***************************************************************************)
(* Properties of the vertex and arc bookkeeping.                           *)
(***************************************************************************)
PopCount(G) == G.num_verts = Cardinality(G.active_vertices)

StoredArcs(G) == {p \in DOMAIN G.arcs : G.arcs[p] > 0}

\* C2: every stored arc has both endpoints active, after any sequence of
\* add_vertex, add_arc, del_all_arcs and del_vertex: a deleted vertex (also
\* once its id is added again) has no arc left.
C2_ArcEndpointsActive ==
    \A p \in StoredArcs(cg) :
        p[1] \in cg.active_vertices /\ p[2] \in cg.active_vertices

\* del_vertex has just removed a vertex together with at least two arcs,
\* and other arcs remain.
C2_Witness ==
    /\ last.op = "del_vertex"
    /\ cg.num_verts = last.pre_verts - 1
    /\ last.pre_arcs - cg.num_arcs >= 2
    /\ cg.num_arcs >= 1

CurrentLabels == {l \in Labels : Backend_has_vertex(l, Backend)}
IdOf(l) == get_vertex(l, vertex_ints, vertex_labels, cg)

\* C3: for every label added and not deleted, label -> id -> label is the
\* identity (and map-indexed labels have vertex_labels[vertex_ints[l]] = l),
\* and two distinct current labels never share an id.
C3_LabelBijection ==
    /\ \A l \in DOMAIN vertex_ints :
          /\ vertex_ints[l] \in DOMAIN vertex_labels
          /\ vertex_labels[vertex_ints[l]] = l
    /\ \A l \in CurrentLabels :
          vertex_label(IdOf(l), vertex_ints, vertex_labels, cg) = l
    /\ \A l1, l2 \in CurrentLabels : IdOf(l1) = IdOf(l2) => l1 = l2

\* An integer label within the allocation is map-indexed to another id than
\* itself, next to a vertex that is its own label, after a deletion.
C3_Witness ==
    /\ last.op = "Backend.del_vertex"
    /\ cg.num_verts = last.pre_verts - 1
    /\ \E l \in DOMAIN vertex_ints :
          IsInt(l) /\ l[2] >= 0 /\ l[2] < cg.size /\ vertex_ints[l] # l[2]
    /\ \E i \in cg.active_vertices : i \notin DOMAIN vertex_labels

InDegreeSum(G) == SumOver(G.in_degrees, G.active_vertices)
OutDegreeSum(G) == SumOver(G.out_degrees, G.active_vertices)

\* Arcs with v as an end; a loop counts once per parallel copy.
IncidentArcs(G, v) ==
    SumOver([u \in 0..(G.size - 1) |-> G.arcs[<<u, v>>]], 0..(G.size - 1))
    + SumOver([w \in 0..(G.size - 1) |-> G.arcs[<<v, w>>]], 0..(G.size - 1))
    - G.arcs[<<v, v>>]

DegreeSums ==
    /\ OutDegreeSum(cg) = cg.num_arcs
    /\ InDegreeSum(cg) = cg.num_arcs

DelVertexAccounting ==
    (last'.op = "del_vertex" /\ has_vertex(cg, last'.arg[1]))
    => /\ cg'.num_arcs = cg.num_arcs - IncidentArcs(cg, last'.arg[1])
       /\ cg'.num_verts = cg.num_verts - 1

\* C10: the out-degrees and the in-degrees of the active vertices both sum
\* to num_arcs, and deleting a vertex lowers num_arcs by the number of arcs
\* incident to it and num_verts by one.
C10_DegreeAccounting == []DegreeSums /\ [][DelVertexAccounting]_vars

\* del_vertex has just removed a vertex with a loop or parallel arcs among
\* its arcs while arcs between other vertices stay.
C10_Witness ==
    /\ last.op = "del_vertex"
    /\ cg.num_verts = last.pre_verts - 1
    /\ last.pre_arcs = MaxArcs
    /\ cg.num_arcs = 1
    /\ kind = "sparse"

(***************************************************************************)
(* Properties of the single CGraph calls.  A step of a call has the call's *)
(* name and argument in last'; the unprimed variables are the state the    *)
(* call was made in.                                                       *)
(***************************************************************************)
Called(op) == mode = "CGraph" /\ last'.op = op
Arg == last'.arg[1]
FreeIds(G) == (0..(G.size - 1)) \ G.active_vertices

C13_WitnessGrowth ==
    /\ last.op = "add_vertex"
    /\ last.arg[1] = 0 - 1
    /\ cg.size = 2 * last.pre_size
    /\ last.ret = last.pre_size

\* C14: del_vertex(v) for v that is not an active vertex (inactive, negative
\* or past the allocation) raises nothing and leaves the graph as it was.
C14_DelInactiveIsNoOp ==
    [][(Called("del_vertex") /\ Arg \notin cg.active_vertices)
       => (last'.exc = "none" /\ cg' = cg)]_vars

\* del_vertex of an inactive id of the allocation, on a graph with an arc.
C14_Witness ==
    /\ last.op = "del_vertex"
    /\ last.arg[1] >= 0 /\ last.arg[1] < cg.size
    /\ last.arg[1] \notin cg.active_vertices
    /\ cg.num_verts = last.pre_verts
    /\ cg.num_arcs >= 1

\* C15: realloc(total) that would cut off an active id returns -1 and leaves
\* the graph as it was; any other realloc makes the size total and leaves
\* the vertices as they were.
C15_ReallocKeepsVertices ==
    [][Called("realloc")
       => IF \E v \in cg.active_vertices : v >= Arg
          THEN last'.ret = 0 - 1 /\ cg' = cg
          ELSE /\ last'.ret # 0 - 1
               /\ cg'.size = Arg
               /\ verts(cg') = verts(cg)
               /\ cg'.active_vertices = cg.active_vertices
               /\ cg'.num_verts = cg.num_verts]_vars

\* A realloc below an active id was refused.
C15_Witness ==
    /\ last.op = "realloc"
    /\ last.ret = 0 - 1
    /\ \E v \in cg.active_vertices : v >= last.arg[1]
    /\ cg.size = last.pre_size

\* A realloc made the allocation smaller, above the highest active id.
C15_WitnessShrink ==
    /\ last.op = "realloc"
    /\ last.ret = 0
    /\ cg.size < last.pre_size
    /\ cg.num_verts >= 1

(***************************************************************************)
(* add_vertex with any integer k.  For k < -1 add_vertex_unsafe passes k   *)
(* to bitset_in and bitset_add: the bit read lies outside the bitset and   *)
(* may have either value, the bit written lies outside it as well; the     *)
(* access may also end the process.                                        *)
(***************************************************************************)
MinId == 3

add_vertex_unsafe_outcomes(G, k) ==
    IF k >= 0 - 1
    THEN {[g |-> add_vertex_unsafe(G, k).g, ret |-> add_vertex_unsafe(G, k).ret,
           exc |-> "none", outside |-> FALSE]}
    ELSE {[g |-> [G EXCEPT !.num_verts = IF b THEN @ ELSE @ + 1],
           ret |-> k, exc |-> "none", outside |-> TRUE] : b \in BOOLEAN}
         \cup {[g |-> G, ret |-> k, exc |-> "crash", outside |-> TRUE]}

add_vertex_outcomes(G, k) ==
    IF k >= 2 * G.size
    THEN {[g |-> G, ret |-> 0 - 1, exc |-> "RuntimeError", outside |-> FALSE]}
    ELSE LET G1 == IF k >= G.size \/ (k = 0 - 1 /\ G.size = G.num_verts)
                   THEN realloc(G, 2 * G.size).g
                   ELSE G
         IN add_vertex_unsafe_outcomes(G1, k)

InitIds ==
    /\ Init
    /\ mode = "CGraph"

\* add_vertex(k), k any integer from -MinId up
IDS_add_vertex ==
    /\ mode = "CGraph"
    /\ \E k \in (0 - MinId)..(2 * cg.size) :
       \E r \in add_vertex_outcomes(cg, k) :
          /\ r.g.size <= MaxSize
          /\ r.g.num_verts <= MaxSize + 1
          /\ cg' = r.g
          /\ last' = Call("add_vertex", <<k>>, r.exc, r.ret)
          /\ alg' = [op |-> "add_vertex", outside |-> r.outside]
    /\ UNCHANGED <<kind, mode, directed, edge_labels, order>>
    /\ NoLabels

NextIds == IDS_add_vertex \/ CG_del_vertex \/ CG_realloc

SpecIds == InitIds /\ [][NextIds]_vars

\* C16: add_vertex(k) with k < -1 is reported as an error, leaves the graph
\* (active_vertices, num_verts, size) as it was, and touches no bit outside
\* the bitset.
C16_NegativeIdIsUsageError ==
    [][(Called("add_vertex") /\ Arg < 0 - 1)
       => /\ last'.exc \in {"RuntimeError", "ValueError"}
          /\ cg' = cg
          /\ ~alg'.outside]_vars

\* What add_vertex(k) with k < -1 does: no exception is raised by the
\* function, k is handed to the bitset, and active_vertices and the size stay.
IDS_NegativeIdReachesBitset ==
    [][(Called("add_vertex") /\ Arg < 0 - 1)
       => /\ last'.exc \in {"none", "crash"}
          /\ alg'.outside
          /\ cg'.active_vertices = cg.active_vertices
          /\ cg'.size = cg.size]_vars

(***************************************************************************)
(* The graphs the traversal and path algorithms are run on: a backend      *)
(* whose forward graph has the vertices V and the arcs A (both ways for an *)
(* undirected graph), with ids as labels or relabelled in reverse order    *)
(* (relabel(range(n-1,-1,-1)) as in the doctest of relabel), and a mirror  *)
(* with the arcs reversed for a directed sparse backend.                   *)
(***************************************************************************)
AlgIds == 0..(MaxVerts - 1)

GraphOf(size, V, A) ==
    LET ids == 0..(size - 1)
        m == [p \in ids \X ids |-> IF p \in A THEN 1 ELSE 0]
    IN [ size            |-> size,
         active_vertices |-> V,
         num_verts       |-> Cardinality(V),
         num_arcs        |-> Cardinality(A),
         in_degrees      |-> [i \in ids |-> Cardinality({p \in A : p[2] = i})],
         out_degrees     |-> [i \in ids |-> Cardinality({p \in A : p[1] = i})],
         arcs            |-> m ]

Transpose(A) == {<<p[2], p[1]>> : p \in A}

\* Sets of at most n elements of S.
RECURSIVE SubsetsUpTo(_, _)
SubsetsUpTo(S, n) ==
    IF n = 0 \/ S = {} THEN {{}}
    ELSE LET x == CHOOSE y \in S : TRUE
             rest == S \ {x}
         IN SubsetsUpTo(rest, n) \cup {T \cup {x} : T \in SubsetsUpTo(rest, n - 1)}

\* Neighbour enumeration orders: every ranking of the ids, or only the
\* ascending and the descending one.
AllOrders == {f \in [AlgIds -> AlgIds] : \A i, j \in AlgIds : f[i] = f[j] => i = j}
TwoOrders == {[i \in AlgIds |-> i], [i \in AlgIds |-> MaxVerts - 1 - i]}

GraphInit(kinds, directeds, vertexSets, orders) ==
    /\ kind \in kinds
    /\ mode = "Backend"
    /\ directed \in directeds
    /\ order \in orders
    /\ \E V \in vertexSets :
       \E A0 \in SubsetsUpTo(V \X V, MaxEdges) :
       \E relabelled \in BOOLEAN :
          LET A == IF directed THEN A0 ELSE A0 \cup Transpose(A0) IN
          /\ cg = GraphOf(MaxVerts, V, A)
          /\ cg_rev = IF directed /\ kind = "sparse"
                      THEN GraphOf(MaxVerts, V, Transpose(A)) ELSE NoGraph
          /\ vertex_labels = IF relabelled
                             THEN [i \in V |-> IntL(MaxVerts - 1 - i)] ELSE EmptyMap
          /\ vertex_ints = IF relabelled
                           THEN [l \in {IntL(MaxVerts - 1 - i) : i \in V} |->
                                    MaxVerts - 1 - l[2]]
                           ELSE EmptyMap
    /\ last = [op |-> "init", arg |-> <<>>, exc |-> "none", ret |-> 0,
               pre_size |-> 0, pre_verts |-> 0, pre_arcs |-> 0]

GraphFrame ==
    UNCHANGED <<kind, mode, cg, cg_rev, directed, vertex_ints, vertex_labels,
                edge_labels, order, last>>

Label(i) == vertex_label(i, vertex_ints, vertex_labels, cg)
Vertices == {Label(i) : i \in cg.active_vertices}
Arcs == StoredArcs(cg)

\* The ids reachable from s along the arcs of A (s included).
RECURSIVE Closure(_, _)
Closure(A, R) ==
    LET R1 == R \cup {p[2] : p \in {q \in A : q[1] \in R}}
    IN IF R1 = R THEN R ELSE Closure(A, R1)
Reach(A, s) == Closure(A, {s})

(***************************************************************************)
(* Search_iterator.                                                        *)
(***************************************************************************)
Search_iterator_init(v, direction, reverse, ignore_direction) ==
    LET ign == IF ~directed THEN FALSE ELSE ignore_direction IN
    [ op        |-> "search",
      start     |-> get_vertex(v, vertex_ints, vertex_labels, cg),
      reverse   |-> reverse,
      ignore    |-> ignore_direction,
      direction |-> direction,
      stack     |-> <<get_vertex(v, vertex_ints, vertex_labels, cg)>>,
      seen      |-> {},
      test_out  |-> (~reverse) \/ ign,
      test_in   |-> reverse \/ ign,
      yielded   |-> <<>>,
      stopped   |-> FALSE ]

\* Variant: the last element is taken whatever the direction.
Pop_last(stack, direction) ==
    [v |-> stack[Len(stack)], rest |-> SubSeq(stack, 1, Len(stack) - 1)]

\* list.pop(direction): the first element for 0, the last for -1.
Pop(stack, direction) ==
    IF direction = 0
    THEN [v |-> Head(stack), rest |-> Tail(stack)]
    ELSE [v |-> stack[Len(stack)], rest |-> SubSeq(stack, 1, Len(stack) - 1)]

\* Variant: the in-neighbours are never put on the list.
RECURSIVE Search_iterator_next_out_only(_)
Search_iterator_next_out_only(it) ==
    IF it.stack = <<>> THEN [it EXCEPT !.stopped = TRUE]
    ELSE LET p == Pop(it.stack, it.direction) IN
         IF p.v \notin it.seen
         THEN [it EXCEPT
                 !.yielded = Append(@, Label(p.v)),
                 !.seen = @ \cup {p.v},
                 !.stack = p.rest
                    \o (IF it.test_out THEN out_neighbors(cg, p.v, order) ELSE <<>>)]
         ELSE Search_iterator_next_out_only([it EXCEPT !.stack = p.rest])

\* Variant: StopIteration is not raised when the list runs empty.
RECURSIVE Search_iterator_next_no_stop(_)
Search_iterator_next_no_stop(it) ==
    IF it.stack = <<>> THEN it
    ELSE LET p == Pop(it.stack, it.direction) IN
         IF p.v \notin it.seen
         THEN [it EXCEPT
                 !.yielded = Append(@, Label(p.v)),
                 !.seen = @ \cup {p.v},
                 !.stack = p.rest
                    \o (IF it.test_out THEN out_neighbors(cg, p.v, order) ELSE <<>>)
                    \o (IF it.test_in THEN in_neighbors(cg, p.v, order) ELSE <<>>)]
         ELSE Search_iterator_next_no_stop([it EXCEPT !.stack = p.rest])

\* __next__: pops until an unseen vertex turns up; StopIteration when the
\* list runs empty.
RECURSIVE Search_iterator_next(_)
Search_iterator_next(it) ==
    IF it.stack = <<>> THEN [it EXCEPT !.stopped = TRUE]
    ELSE LET p == Pop(it.stack, it.direction) IN
         IF p.v \notin it.seen
         THEN [it EXCEPT
                 !.yielded = Append(@, Label(p.v)),
                 !.seen = @ \cup {p.v},
                 !.stack = p.rest
                    \o (IF it.test_out THEN out_neighbors(cg, p.v, order) ELSE <<>>)
                    \o (IF it.test_in THEN in_neighbors(cg, p.v, order) ELSE <<>>)]
         ELSE Search_iterator_next([it EXCEPT !.stack = p.rest])

InitSearch ==
    /\ GraphInit({"sparse"}, BOOLEAN, {AlgIds, AlgIds \ {0}}, TwoOrders)
    /\ edge_labels = EmptyMap
    /\ alg = Idle

\* breadth_first_search (direction 0) / depth_first_search (direction -1)
SI_create ==
    /\ alg = Idle
    /\ \E v \in Vertices, direction \in {0, 0 - 1},
          reverse \in BOOLEAN, ignore_direction \in BOOLEAN :
          alg' = Search_iterator_init(v, direction, reverse, ignore_direction)
    /\ GraphFrame

SI_next ==
    /\ alg # Idle
    /\ ~alg.stopped
    /\ alg' = Search_iterator_next(alg)
    /\ GraphFrame

NextSearch == SI_create \/ SI_next

SpecSearch == InitSearch /\ [][NextSearch]_vars

NoDuplicates(s) == \A i, j \in 1..Len(s) : s[i] = s[j] => i = j

\* The arcs a traversal is to follow: in-arcs for reverse, both ways when
\* directions are ignored on a directed graph, out-arcs otherwise.
SearchArcs(it) ==
    IF it.ignore /\ directed THEN Arcs \cup Transpose(Arcs)
    ELSE IF it.reverse THEN Transpose(Arcs)
    ELSE Arcs

\* C4: the sequence a BFS or DFS iterator has produced when it stops has no
\* duplicates, and its set is the set of vertices reachable from the start.
C4_SearchVisitsReachableOnce ==
    (alg # Idle /\ alg.stopped)
    => /\ NoDuplicates(alg.yielded)
       /\ Range(alg.yielded) = {Label(i) : i \in Reach(SearchArcs(alg), alg.start)}

\* A depth-first search against the arcs has stopped after yielding every
\* vertex of a relabelled graph that has a cycle through the start vertex.
C4_Witness ==
    /\ alg # Idle
    /\ alg.stopped
    /\ alg.direction = 0 - 1
    /\ alg.reverse /\ ~alg.ignore
    /\ directed
    /\ vertex_labels # EmptyMap
    /\ Len(alg.yielded) = MaxVerts
    /\ \E p \in Arcs : p[2] = alg.start /\ p[1] # alg.start

(***************************************************************************)
(* is_directed_acyclic.                                                    *)
(***************************************************************************)
Ascending(S) == SeqBy(S, [i \in S |-> i])

Reverse_list(s) == [i \in 1..Len(s) |-> s[Len(s) + 1 - i]]

\* Variant: the list is returned as collected, without cycle.reverse().
RECURSIVE cycle_from_unreversed(_, _, _, _)
cycle_from_unreversed(u, uu, parent, cycle) ==
    IF u = uu THEN cycle
    ELSE LET w == IF u \in DOMAIN parent THEN parent[u] ELSE uu
         IN cycle_from_unreversed(w, uu, parent, Append(cycle, Label(w)))

\* The certificate of a circuit: from u back through parent to uu, reversed.
RECURSIVE cycle_from(_, _, _, _)
cycle_from(u, uu, parent, cycle) ==
    IF u = uu THEN Reverse_list(cycle)
    ELSE LET w == IF u \in DOMAIN parent THEN parent[u] ELSE uu
         IN cycle_from(w, uu, parent, Append(cycle, Label(w)))

\* for uu in self._cg.out_neighbors(u)
RECURSIVE dag_neighbors(_, _, _)
dag_neighbors(st, u, nbrs) ==
    IF nbrs = <<>> THEN st
    ELSE LET uu == Head(nbrs) IN
         IF uu \notin st.seen
         THEN IF uu \in st.activated
              THEN dag_neighbors([st EXCEPT !.parent = Put(@, uu, u),
                                            !.stack = Append(@, uu)],
                                 u, Tail(nbrs))
              ELSE dag_neighbors(st, u, Tail(nbrs))
         ELSE [st EXCEPT !.found = TRUE,
                         !.cycle = cycle_from(u, uu, st.parent, <<Label(u)>>)]

\* Variant: a vertex stays marked as seen after all its paths were tried.
RECURSIVE dag_while_keeps_seen(_)
dag_while_keeps_seen(st) ==
    IF st.stack = <<>> \/ st.found THEN st
    ELSE LET u == st.stack[Len(st.stack)]
             rest == SubSeq(st.stack, 1, Len(st.stack) - 1)
         IN IF u \notin st.tried
            THEN dag_while_keeps_seen(
                    dag_neighbors([st EXCEPT !.tried = @ \cup {u},
                                             !.seen = @ \cup {u}],
                                  u, out_neighbors(cg, u, order)))
            ELSE dag_while_keeps_seen([st EXCEPT !.stack = rest,
                                                 !.ordering = <<Label(u)>> \o @,
                                                 !.activated = @ \ {u}])

\* while stack
RECURSIVE dag_while(_)
dag_while(st) ==
    IF st.stack = <<>> \/ st.found THEN st
    ELSE LET u == st.stack[Len(st.stack)]
             rest == SubSeq(st.stack, 1, Len(st.stack) - 1)
         IN IF u \notin st.tried
            THEN dag_while(
                    dag_neighbors([st EXCEPT !.tried = @ \cup {u},
                                             !.seen = @ \cup {u}],
                                  u, out_neighbors(cg, u, order)))
            ELSE dag_while([st EXCEPT !.stack = rest,
                                      !.ordering = <<Label(u)>> \o @,
                                      !.seen = @ \ {u},
                                      !.activated = @ \ {u}])

\* for v in self._cg.verts()
RECURSIVE dag_outer(_, _)
dag_outer(st, vs) ==
    IF vs = <<>> \/ st.found THEN st
    ELSE LET v == Head(vs) IN
         IF v \notin st.activated THEN dag_outer(st, Tail(vs))
         ELSE LET w == dag_while([st EXCEPT !.stack = <<v>>, !.seen = @ \cup {v}])
              IN IF w.found THEN w
                 ELSE dag_outer([w EXCEPT !.seen = {},
                                          !.activated = @ \ w.seen,
                                          !.tried = @ \cup w.seen],
                                Tail(vs))

is_directed_acyclic(certificate) ==
    IF ~directed
    THEN [op |-> "is_directed_acyclic", exc |-> "ValueError",
          certificate |-> certificate, ret |-> FALSE, list |-> <<>>]
    ELSE LET st == dag_outer([ seen      |-> {},
                               activated |-> 0..(cg.size - 1),
                               tried     |-> {},
                               parent    |-> EmptyMap,
                               stack     |-> <<>>,
                               ordering  |-> <<>>,
                               found     |-> FALSE,
                               cycle     |-> <<>> ],
                             Ascending(verts(cg)))
         IN [op |-> "is_directed_acyclic", exc |-> "none",
             certificate |-> certificate,
             ret  |-> ~st.found,
             list |-> IF ~certificate THEN <<>>
                      ELSE IF st.found THEN st.cycle ELSE st.ordering]

InitDAG ==
    /\ GraphInit({"dense"}, BOOLEAN, {AlgIds, AlgIds \ {0}}, AllOrders)
    /\ edge_labels = EmptyMap
    /\ alg = Idle

DAG_call ==
    /\ alg = Idle
    /\ \E certificate \in BOOLEAN : alg' = is_directed_acyclic(certificate)
    /\ GraphFrame

NextDAG == DAG_call

SpecDAG == InitDAG /\ [][NextDAG]_vars

DagReturned(b) ==
    /\ alg # Idle
    /\ alg.exc = "none"
    /\ alg.ret = b

LabelArcs == {<<Label(p[1]), Label(p[2])>> : p \in Arcs}

Positions(s, x) == {i \in 1..Len(s) : s[i] = x}

\* There is a directed cycle: some vertex reaches itself along at least one arc.
HasCycle == \E p \in Arcs : p[1] \in Reach(Arcs, p[2])

\* C7: when (True, ordering) is returned, every vertex appears exactly once
\* in ordering and the tail of every arc comes before its head.
C7_OrderingIsTopological ==
    (DagReturned(TRUE) /\ alg.certificate)
    => /\ \A x \in Vertices : Cardinality(Positions(alg.list, x)) = 1
       /\ Range(alg.list) \subseteq Vertices
       /\ \A a \in LabelArcs :
             \A i \in Positions(alg.list, a[1]), j \in Positions(alg.list, a[2]) : i < j

\* C8: when (False, cycle) is returned, every consecutive pair of cycle, and
\* the pair from its last to its first element, is an arc.
C8_CycleIsCircuit ==
    (DagReturned(FALSE) /\ alg.certificate)
    => /\ Len(alg.list) >= 1
       /\ \A i \in 1..Len(alg.list) :
             <<alg.list[i], alg.list[(i % Len(alg.list)) + 1]>> \in LabelArcs

\* A circuit through every vertex of a relabelled graph was returned.
C8_Witness ==
    /\ DagReturned(FALSE) /\ alg.certificate
    /\ Len(alg.list) = MaxVerts
    /\ vertex_labels # EmptyMap

\* C9: on a directed graph the answer is True exactly when there is no
\* directed cycle.
C9_TrueIffAcyclic ==
    (alg # Idle /\ alg.op = "is_directed_acyclic")
    => IF directed THEN alg.exc = "none" /\ (alg.ret <=> ~HasCycle)
       ELSE alg.exc = "ValueError"

\* True was returned for a graph with MaxEdges arcs in which one vertex is
\* the head of two arcs, its neighbours being enumerated in descending order.
C9_Witness ==
    /\ DagReturned(TRUE)
    /\ cg.num_arcs = MaxEdges
    /\ \E i \in verts(cg) : cg.in_degrees[i] >= 2
    /\ order[0] > order[1]

(***************************************************************************)
(* shortest_path.                                                          *)
(***************************************************************************)
\* Infinity of sage.rings.infinity, written as a value no distance takes.
Infinity == 0 - 1

\* The number of arcs of a shortest path from a vertex of frontier to t,
\* d arcs having been walked already.
RECURSIVE LayerDistance(_, _, _, _, _)
LayerDistance(A, frontier, visited, t, d) ==
    IF t \in frontier THEN d
    ELSE IF frontier = {} THEN Infinity
    ELSE LET nxt == {p[2] : p \in {q \in A : q[1] \in frontier}} \ visited
         IN LayerDistance(A, nxt, visited \cup nxt, t, d + 1)
Distance(A, s, t) == LayerDistance(A, {s}, {s}, t, 0)

\* while w != x_int: shortest_path.append(vertex_label(w)); w = pred_x[w]
RECURSIVE walk_back(_, _, _, _)
walk_back(w, stop, pred, acc) ==
    IF w = stop THEN acc
    ELSE walk_back(pred[w], stop, pred, Append(acc, Label(w)))

\* The path through v, a vertex both sides know.
build_path(st, v) ==
    LET pred_x == IF st.out = 1 THEN st.cur.pred ELSE st.oth.pred
        pred_y == IF st.out = 1 THEN st.oth.pred ELSE st.cur.pred
        first == Reverse_list(Append(walk_back(v, st.x_int, pred_x, <<>>), st.x))
    IN IF v = st.y_int THEN first
       ELSE Append(walk_back(pred_y[v], st.y_int, pred_y, first), st.y)

\* Variant: a new neighbour is never looked up on the other side.
RECURSIVE sp_neighbors_never_meets(_, _, _)
sp_neighbors_never_meets(st, u, nbrs) ==
    IF nbrs = <<>> THEN st
    ELSE LET v == Head(nbrs) IN
         IF v \notin DOMAIN st.cur.dist
         THEN sp_neighbors_never_meets(
                 [st EXCEPT !.cur.dist = Put(@, v, st.cur.dist[u] + 1),
                            !.cur.pred = Put(@, v, u),
                            !.cur.next = Append(@, v)],
                 u, Tail(nbrs))
         ELSE sp_neighbors_never_meets(st, u, Tail(nbrs))

\* for v in neighbors
RECURSIVE sp_neighbors(_, _, _)
sp_neighbors(st, u, nbrs) ==
    IF nbrs = <<>> THEN st
    ELSE LET v == Head(nbrs) IN
         IF v \notin DOMAIN st.cur.dist
         THEN LET st1 == [st EXCEPT !.cur.dist = Put(@, v, st.cur.dist[u] + 1),
                                    !.cur.pred = Put(@, v, u),
                                    !.cur.next = Append(@, v)]
              IN IF v \in DOMAIN st1.oth.dist
                 THEN [st1 EXCEPT !.done = TRUE, !.path = build_path(st1, v)]
                 ELSE sp_neighbors(st1, u, Tail(nbrs))
         ELSE sp_neighbors(st, u, Tail(nbrs))

\* for u in next_current: the list grows while it is walked, next_current
\* being the list the new vertices are appended to.
RECURSIVE sp_for(_, _)
sp_for(st, i) ==
    IF st.done \/ i > Len(st.cur.next) THEN st
    ELSE LET u == st.cur.next[i]
             neighbors == IF st.out = 1 THEN out_neighbors(cg, u, order)
                          ELSE IF cg_rev # NoGraph THEN out_neighbors(cg_rev, u, order)
                          ELSE in_neighbors(cg, u, order)
         IN sp_for(sp_neighbors([st EXCEPT !.studied = Append(@, u)], u, neighbors),
                   i + 1)

\* while next_current: one round, then the sides change places.
RECURSIVE sp_while(_)
sp_while(st) ==
    IF st.done \/ st.cur.next = <<>> THEN st
    ELSE LET st1 == sp_for([st EXCEPT !.studied = <<>>], 1)
             round == [out |-> st.out, frontier |-> st.cur.next,
                       walked |-> st1.cur.next, studied |-> st1.studied]
         IN IF st1.done THEN [st1 EXCEPT !.rounds = Append(@, round)]
            ELSE sp_while([st1 EXCEPT !.cur = st1.oth,
                                      !.oth = [st1.cur EXCEPT !.next = <<>>],
                                      !.out = 0 - st1.out,
                                      !.rounds = Append(@, round)])

shortest_path(x, y) ==
    IF x = y
    THEN [op |-> "shortest_path", x |-> x, y |-> y, returns |-> "int",
          ret |-> 0, list |-> <<>>, rounds |-> <<>>]
    ELSE LET x_int == get_vertex(x, vertex_ints, vertex_labels, cg)
             y_int == get_vertex(y, vertex_ints, vertex_labels, cg)
             st == sp_while([ x |-> x, y |-> y, x_int |-> x_int, y_int |-> y_int,
                              cur |-> [dist |-> Put(EmptyMap, x_int, 0),
                                       pred |-> EmptyMap, next |-> <<x_int>>],
                              oth |-> [dist |-> Put(EmptyMap, y_int, 0),
                                       pred |-> EmptyMap, next |-> <<y_int>>],
                              out |-> 1, done |-> FALSE, path |-> <<>>,
                              studied |-> <<>>, rounds |-> <<>> ])
         IN [op |-> "shortest_path", x |-> x, y |-> y, returns |-> "list",
             ret |-> 0, list |-> st.path, rounds |-> st.rounds]

InitSP ==
    /\ GraphInit({"sparse", "dense"}, BOOLEAN, {AlgIds, AlgIds \ {0}}, TwoOrders)
    /\ edge_labels = EmptyMap
    /\ alg = Idle

SP_call ==
    /\ alg = Idle
    /\ \E x \in Vertices, y \in Vertices : alg' = shortest_path(x, y)
    /\ GraphFrame

NextSP == SP_call

SpecSP == InitSP /\ [][NextSP]_vars

\* Every vertex can be reached from every other one when the direction of the
\* arcs is ignored.
Connected ==
    \A i \in verts(cg) : Reach(Arcs \cup Transpose(Arcs), i) = verts(cg)

IdOfLabel(l) == CHOOSE i \in verts(cg) : Label(i) = l

\* s is a list from x to y along arcs, as short as any.
IsShortestPath(s, x, y) ==
    /\ Len(s) >= 1
    /\ s[1] = x
    /\ s[Len(s)] = y
    /\ \A i \in 1..(Len(s) - 1) : <<s[i], s[i + 1]>> \in LabelArcs
    /\ Len(s) - 1 = Distance(Arcs, IdOfLabel(x), IdOfLabel(y))

\* C5: on a connected graph, for every pair (x, y) with a path from x to y,
\* shortest_path(x, y) is a list from x to y along arcs whose length minus one
\* is the BFS distance.
C5_ShortestPathIsShortest ==
    (/\ alg # Idle
     /\ Connected
     /\ IdOfLabel(alg.y) \in Reach(Arcs, IdOfLabel(alg.x)))
    => /\ alg.returns = "list"
       /\ IsShortestPath(alg.list, alg.x, alg.y)

\* The same for two different vertices.
SP_DistinctPairs ==
    (/\ alg # Idle
     /\ alg.x # alg.y
     /\ IdOfLabel(alg.y) \in Reach(Arcs, IdOfLabel(alg.x)))
    => /\ alg.returns = "list"
       /\ IsShortestPath(alg.list, alg.x, alg.y)

\* C20: for x # y, shortest_path(x, y) returns a list, and the list is
\* empty exactly when y cannot be reached from x along arcs.
C20_EmptyIffUnreachable ==
    (alg # Idle /\ alg.x # alg.y)
    => /\ alg.returns = "list"
       /\ alg.list = <<>> <=> IdOfLabel(alg.y) \notin Reach(Arcs, IdOfLabel(alg.x))

\* [] was returned after both sides were searched to the end, the side of x
\* having walked an arc to another vertex, on a directed relabelled graph.
C20_Witness ==
    /\ alg # Idle
    /\ alg.x # alg.y
    /\ alg.returns = "list"
    /\ alg.list = <<>>
    /\ Len(alg.rounds) = 2
    /\ Len(alg.rounds[1].walked) >= 2
    /\ directed
    /\ vertex_labels # EmptyMap

(***************************************************************************)
(* floyd_warshall and all_pairs_shortest_path_BFS.                         *)
(***************************************************************************)
\* <unsigned short> -1
USHORT_MAX == 65535

NotRun == [op |-> "none"]

\* The size tests: "if n >= <unsigned short> -1" in floyd_warshall,
\* "if n > <unsigned short> -1" in all_pairs_shortest_path_BFS.
fw_too_large(n) == n >= USHORT_MAX
bfs_too_large(n) == n > USHORT_MAX

\* dist after "init dist": memset to -1, then 0 on the diagonal and 1 for
\* every out-neighbour, in that order.
fw_init_dist(n, gverts) ==
    [p \in (0..(n - 1)) \X (0..(n - 1)) |->
        IF p[1] \in Range(gverts) /\ p[2] \in Range(out_neighbors(cg, p[1], order))
        THEN 1
        ELSE IF p[1] \in Range(gverts) /\ p[1] = p[2] THEN 0
        ELSE USHORT_MAX]

\* prec after "init prec": memset to 0, then v for v itself and for every
\* out-neighbour of v.
fw_init_prec(n, gverts) ==
    [p \in (0..(n - 1)) \X (0..(n - 1)) |->
        IF p[1] \in Range(gverts)
           /\ (p[1] = p[2] \/ p[2] \in Range(out_neighbors(cg, p[1], order)))
        THEN p[1]
        ELSE 0]

\* Variant: the predecessor kept is the one on the way to w.
RECURSIVE fw_u_way_to_w(_, _, _, _, _)
fw_u_way_to_w(t, w, v, dvw, us) ==
    IF us = <<>> THEN t
    ELSE LET u == Head(us)
             val == dvw + t.dist[<<w, u>>]
         IN IF t.dist[<<v, u>>] > val
            THEN fw_u_way_to_w([t EXCEPT !.dist[<<v, u>>] = val % (USHORT_MAX + 1),
                                         !.prec[<<v, u>>] = t.prec[<<v, w>>]],
                               w, v, dvw, Tail(us))
            ELSE fw_u_way_to_w(t, w, v, dvw, Tail(us))

\* for u_int in gverts, with dvw read before the loop
RECURSIVE fw_u(_, _, _, _, _)
fw_u(t, w, v, dvw, us) ==
    IF us = <<>> THEN t
    ELSE LET u == Head(us)
             val == dvw + t.dist[<<w, u>>]
         IN IF t.dist[<<v, u>>] > val
            THEN fw_u([t EXCEPT !.dist[<<v, u>>] = val % (USHORT_MAX + 1),
                                !.prec[<<v, u>>] = t.prec[<<w, u>>]],
                      w, v, dvw, Tail(us))
            ELSE fw_u(t, w, v, dvw, Tail(us))

\* for v_int in gverts
RECURSIVE fw_v(_, _, _, _)
fw_v(t, w, vs, gverts) ==
    IF vs = <<>> THEN t
    ELSE fw_v(fw_u(t, w, Head(vs), t.dist[<<Head(vs), w>>], gverts),
              w, Tail(vs), gverts)

\* for w_int in gverts
RECURSIVE fw_w(_, _, _)
fw_w(t, ws, gverts) ==
    IF ws = <<>> THEN t
    ELSE fw_w(fw_v(t, Head(ws), gverts, gverts), Tail(ws), gverts)

floyd_warshall(paths, distances) ==
    LET gverts == Ascending(verts(cg))
        n == Max(verts(cg)) + 1
    IN IF fw_too_large(n)
       THEN [op |-> "floyd_warshall", exc |-> "ValueError", paths |-> paths,
             distances |-> distances, dist |-> EmptyMap, prec |-> EmptyMap]
       ELSE LET t == fw_w([dist |-> fw_init_dist(n, gverts),
                           prec |-> fw_init_prec(n, gverts)], gverts, gverts)
            IN [op |-> "floyd_warshall", exc |-> "none", paths |-> paths,
                distances |-> distances,
                dist |-> IF ~distances THEN EmptyMap
                         ELSE [v \in Vertices |-> [u \in Vertices |->
                                LET d == t.dist[<<IdOfLabel(v), IdOfLabel(u)>>]
                                IN IF d # USHORT_MAX THEN d ELSE Infinity]],
                prec |-> IF ~paths THEN EmptyMap
                         ELSE [v \in Vertices |-> [u \in Vertices |->
                                IF v = u THEN None
                                ELSE Label(t.prec[<<IdOfLabel(v), IdOfLabel(u)>>])]]]

\* while waiting_beginning <= waiting_end
RECURSIVE bfs_visit(_, _)
bfs_visit(b, nbrs) ==
    IF nbrs = <<>> THEN b
    ELSE LET u == Head(nbrs)
             v == b.waiting_list[b.waiting_beginning + 1]
         IN IF u \notin b.seen
            THEN bfs_visit([b EXCEPT !.v_distances = Put(@, u, b.v_distances[v] + 1),
                                     !.v_prec = Put(@, u, v),
                                     !.seen = @ \cup {u},
                                     !.waiting_list = Append(@, u)],
                           Tail(nbrs))
            ELSE bfs_visit(b, Tail(nbrs))

RECURSIVE bfs_while(_)
bfs_while(b) ==
    IF b.waiting_beginning >= Len(b.waiting_list) THEN b
    ELSE LET v == b.waiting_list[b.waiting_beginning + 1]
             b1 == bfs_visit(b, out_neighbors(cg, v, order))
         IN bfs_while([b1 EXCEPT !.waiting_beginning = @ + 1])

\* One source: the search, then tmp_distances and tmp_prec.
bfs_source(source) ==
    LET b == bfs_while([ seen |-> {source},
                         v_distances |-> Put(EmptyMap, source, 0),
                         v_prec |-> Put(EmptyMap, source, source),
                         waiting_list |-> <<source>>,
                         waiting_beginning |-> 0 ])
    IN [dist |-> [vv \in Vertices |->
                    IF IdOfLabel(vv) \in b.seen THEN b.v_distances[IdOfLabel(vv)]
                    ELSE Infinity],
        prec |-> [vv \in Vertices |->
                    IF vv = Label(source) THEN None
                    ELSE IF IdOfLabel(vv) \in b.seen THEN Label(b.v_prec[IdOfLabel(vv)])
                    ELSE None]]

all_pairs_shortest_path_BFS ==
    LET n == Max(verts(cg)) + 1
    IN IF bfs_too_large(n)
       THEN [op |-> "all_pairs_shortest_path_BFS", exc |-> "ValueError",
             dist |-> EmptyMap, prec |-> EmptyMap]
       ELSE [op |-> "all_pairs_shortest_path_BFS", exc |-> "none",
             dist |-> [v \in Vertices |-> bfs_source(IdOfLabel(v)).dist],
             prec |-> [v \in Vertices |-> bfs_source(IdOfLabel(v)).prec]]

InitAP ==
    /\ GraphInit({"sparse"}, BOOLEAN, {AlgIds, AlgIds \ {0}}, TwoOrders)
    /\ edge_labels = EmptyMap
    /\ alg = [op |-> "all_pairs", fw |-> NotRun, bfs |-> NotRun]

AP_floyd_warshall ==
    /\ alg.fw = NotRun
    /\ \E paths \in BOOLEAN, distances \in BOOLEAN :
          alg' = [alg EXCEPT !.fw = floyd_warshall(paths, distances)]
    /\ GraphFrame

AP_all_pairs_shortest_path_BFS ==
    /\ alg.bfs = NotRun
    /\ alg' = [alg EXCEPT !.bfs = all_pairs_shortest_path_BFS]
    /\ GraphFrame

NextAP == AP_floyd_warshall \/ AP_all_pairs_shortest_path_BFS

SpecAP == InitAP /\ [][NextAP]_vars

BothTables ==
    /\ alg.fw # NotRun /\ alg.fw.exc = "none" /\ alg.fw.distances
    /\ alg.bfs # NotRun /\ alg.bfs.exc = "none"

\* C6: the distance tables of floyd_warshall(distances=True) and of
\* all_pairs_shortest_path_BFS are the same, each entry being the length of a
\* shortest path, 0 for u = v and Infinity when v cannot be reached from u.
C6_FloydWarshallEqualsBFS ==
    BothTables
    => /\ alg.fw.dist = alg.bfs.dist
       /\ \A u \in Vertices, v \in Vertices :
             alg.fw.dist[u][v] = IF u = v THEN 0
                                 ELSE Distance(Arcs, IdOfLabel(u), IdOfLabel(v))

\* The same for graphs without loops.
AP_LooplessTablesAgree ==
    (BothTables /\ \A i \in verts(cg) : <<i, i>> \notin Arcs)
    => /\ alg.fw.dist = alg.bfs.dist
       /\ \A u \in Vertices, v \in Vertices :
             alg.fw.dist[u][v] = Distance(Arcs, IdOfLabel(u), IdOfLabel(v))

\* The table of all_pairs_shortest_path_BFS alone.
AP_BFSDistances ==
    (alg.bfs # NotRun /\ alg.bfs.exc = "none")
    => \A u \in Vertices, v \in Vertices :
          alg.bfs.dist[u][v] = Distance(Arcs, IdOfLabel(u), IdOfLabel(v))

(***************************************************************************)
(* bidirectional_dijkstra.  distance, edge_label, f_tmp and                *)
(* shortest_path_length are C floats: every value stored in them is        *)
(* rounded to 24 significant bits (weights are integers here).             *)
(***************************************************************************)
BigWeight == 2^24
Weights == {0 - 1, 0, 1, 2, BigWeight, BigWeight + 1}

RECURSIVE float_step(_)
float_step(n) == IF n < 2^24 THEN 1 ELSE 2 * float_step(n \div 2)

\* The float nearest to the integer n >= 0, ties to the even mantissa.
float_abs(n) ==
    LET st == float_step(n)
        q == n \div st
        r == n % st
    IN IF 2 * r < st THEN q * st
       ELSE IF 2 * r > st THEN (q + 1) * st
       ELSE IF q % 2 = 0 THEN q * st
       ELSE (q + 1) * st

float(n) == IF n < 0 THEN 0 - float_abs(0 - n) ELSE float_abs(n)

\* get_edge_label of the backend: the label stored with the arc.
get_edge_label(u, v) ==
    edge_labels[<<get_vertex(u, vertex_ints, vertex_labels, cg),
                  get_vertex(v, vertex_ints, vertex_labels, cg)>>]

\* Python's order on the tuples (distance, side, pred, v).
TupleLess(a, b) ==
    \E i \in 1..4 : a[i] < b[i] /\ \A j \in 1..(i - 1) : a[j] = b[j]

heappop(queue) == CHOOSE t \in queue : \A u \in queue : t = u \/ TupleLess(t, u)

\* while queue
RECURSIVE dij_while(_)
dij_while(st) ==
    IF st.queue = {} THEN st
    ELSE LET t == heappop(st.queue)
             distance == float(t[1])
             side == t[2]
             pred == t[3]
             v == t[4]
         IN IF st.meeting_vertex # 0 - 1 /\ distance > st.shortest_path_length
            THEN st
            ELSE LET dist_current == IF side = 1 THEN st.dist_x ELSE st.dist_y
                     dist_other == IF side = 1 THEN st.dist_y ELSE st.dist_x
                     f_tmp == float(distance + dist_other[v])
                     meets == /\ v \in DOMAIN dist_other
                              /\ \/ st.meeting_vertex = 0 - 1
                                 \/ f_tmp < st.shortest_path_length
                     neighbors == IF side = 1 THEN out_neighbors(cg, v, order)
                                  ELSE IF cg_rev # NoGraph
                                       THEN out_neighbors(cg_rev, v, order)
                                  ELSE in_neighbors(cg, v, order)
                     edge_label(w) == float(IF side = 1
                                            THEN get_edge_label(Label(v), Label(w))
                                            ELSE get_edge_label(Label(w), Label(v)))
                     pushed == {<<float(distance + edge_label(w)), side, v, w>> :
                                  w \in {n \in Range(neighbors) :
                                           n # v /\ n \notin DOMAIN dist_current}}
                     st1 == [st EXCEPT !.queue = @ \ {t}, !.popped = @ + 1]
                 IN IF v \in DOMAIN dist_current THEN dij_while(st1)
                    ELSE dij_while(
                      [st1 EXCEPT
                         !.pred_x = IF side = 1 THEN Put(@, v, pred) ELSE @,
                         !.dist_x = IF side = 1 THEN Put(@, v, distance) ELSE @,
                         !.pred_y = IF side = 1 THEN @ ELSE Put(@, v, pred),
                         !.dist_y = IF side = 1 THEN @ ELSE Put(@, v, distance),
                         !.meeting_vertex = IF meets THEN v ELSE @,
                         !.shortest_path_length = IF meets THEN f_tmp ELSE @,
                         !.queue = @ \cup pushed])

bidirectional_dijkstra(x, y) ==
    IF x = y
    THEN [op |-> "bidirectional_dijkstra", x |-> x, y |-> y, exc |-> "none",
          returns |-> "int", list |-> <<>>, popped |-> 0]
    ELSE LET x_int == get_vertex(x, vertex_ints, vertex_labels, cg)
             y_int == get_vertex(y, vertex_ints, vertex_labels, cg)
             st == dij_while([ queue |-> {<<0, 1, x_int, x_int>>,
                                          <<0, 0 - 1, y_int, y_int>>},
                               dist_x |-> EmptyMap, dist_y |-> EmptyMap,
                               pred_x |-> EmptyMap, pred_y |-> EmptyMap,
                               meeting_vertex |-> 0 - 1,
                               shortest_path_length |-> 0,
                               popped |-> 0 ])
             m == st.meeting_vertex
             first == Reverse_list(Append(walk_back(m, x_int, st.pred_x, <<>>), x))
         IN [op |-> "bidirectional_dijkstra", x |-> x, y |-> y, exc |-> "none",
             returns |-> "list",
             list |-> IF m = 0 - 1 THEN <<>>
                      ELSE IF m = y_int THEN first
                      ELSE Append(walk_back(st.pred_y[m], y_int, st.pred_y, first), y),
             popped |-> st.popped]

\* The arcs that carry a label of their own: every arc of a directed graph,
\* one direction of every edge of an undirected one.
OwnLabel(A) == IF directed THEN A ELSE {p \in A : p[1] <= p[2]}

InitDij ==
    /\ GraphInit({"sparse"}, BOOLEAN, {AlgIds}, {[i \in AlgIds |-> i]})
    /\ \E w \in [OwnLabel(StoredArcs(cg)) -> Weights] :
          edge_labels = [p \in StoredArcs(cg) |->
                           IF p \in DOMAIN w THEN w[p] ELSE w[<<p[2], p[1]>>]]
    /\ alg = Idle

DIJ_call ==
    /\ alg = Idle
    /\ \E x \in Vertices, y \in Vertices : alg' = bidirectional_dijkstra(x, y)
    /\ GraphFrame

NextDij == DIJ_call

SpecDij == InitDij /\ [][NextDij]_vars

\* A weight no path reaches.
Far == 2^29

\* The least weight of a walk of at most k arcs from s to t.
RECURSIVE WeightWithin(_, _, _)
WeightWithin(s, t, k) ==
    IF k = 0 THEN (IF s = t THEN 0 ELSE Far)
    ELSE Min({WeightWithin(s, t, k - 1)}
             \cup {Min({Far, WeightWithin(s, p[1], k - 1) + edge_labels[p]}) :
                     p \in {q \in Arcs : q[2] = t}})
MinWeight(s, t) == WeightWithin(s, t, MaxVerts - 1)

RECURSIVE PathWeight(_)
PathWeight(s) ==
    IF Len(s) <= 1 THEN 0
    ELSE get_edge_label(s[1], s[2]) + PathWeight(Tail(s))

NonNegative == \A p \in Arcs : edge_labels[p] >= 0

\* The list is what bidirectional_dijkstra(x, y) is to return.
IsLightestPath(s, x, y) ==
    IF IdOfLabel(y) \in Reach(Arcs, IdOfLabel(x))
    THEN /\ Len(s) >= 1
         /\ s[1] = x
         /\ s[Len(s)] = y
         /\ \A i \in 1..(Len(s) - 1) : <<s[i], s[i + 1]>> \in LabelArcs
         /\ PathWeight(s) = MinWeight(IdOfLabel(x), IdOfLabel(y))
    ELSE s = <<>>

\* C17: with non-negative weights and x # y, bidirectional_dijkstra(x, y)
\* is a list from x to y along arcs whose weight is the least of any path
\* from x to y, and [] when there is no path.
C17_DijkstraIsLightest ==
    (alg # Idle /\ NonNegative /\ alg.x # alg.y)
    => (alg.returns = "list" /\ IsLightestPath(alg.list, alg.x, alg.y))

\* The same when every weight is below 2^24, so that no sum is rounded.
DIJ_SmallWeights ==
    (alg # Idle /\ alg.x # alg.y /\ \A p \in Arcs : edge_labels[p] \in 0..2)
    => (alg.returns = "list" /\ IsLightestPath(alg.list, alg.x, alg.y))

\* C18: on a graph with a negative weight the call signals an error and no
\* vertex is taken from the queue.
C18_NegativeWeightRefused ==
    (alg # Idle /\ ~NonNegative)
    => (alg.exc # "none" /\ alg.popped = 0)

\* What the call does with a negative weight: no error, and for x # y it
\* searches.
DIJ_NegativeWeightSearched ==
    (alg # Idle /\ ~NonNegative)
    => (alg.exc = "none" /\ (alg.x # alg.y => alg.popped >= 2))

(***************************************************************************)
(* is_strongly_connected, next to is_directed_acyclic, on directed and     *)
(* undirected backends.                                                    *)
(***************************************************************************)
bitset_first(bits) == IF bits = {} THEN 0 - 1 ELSE Min(bits)

\* list(it): the iterator run until StopIteration.
RECURSIVE list_of(_)
list_of(it) == IF it.stopped THEN it.yielded ELSE list_of(Search_iterator_next(it))

depth_first_search(v, reverse, ignore_direction) ==
    Search_iterator_init(v, 0 - 1, reverse, ignore_direction)

is_strongly_connected ==
    LET v_int == bitset_first(cg.active_vertices) IN
    IF v_int = 0 - 1
    THEN [op |-> "is_strongly_connected", exc |-> "none", ret |-> TRUE, visited |-> 0]
    ELSE LET v == Label(v_int)
             forward == list_of(depth_first_search(v, FALSE, FALSE))
             backward == list_of(depth_first_search(v, TRUE, FALSE))
         IN [op |-> "is_strongly_connected", exc |-> "none",
             ret |-> (cg.num_verts = Len(forward) /\ cg.num_verts = Len(backward)),
             visited |-> IF cg.num_verts = Len(forward)
                         THEN Len(forward) + Len(backward) ELSE Len(forward)]

InitSC ==
    /\ GraphInit({"sparse"}, BOOLEAN, {AlgIds, AlgIds \ {0}, {}}, TwoOrders)
    /\ edge_labels = EmptyMap
    /\ alg = [op |-> "checks", sc |-> NotRun, dag |-> NotRun]

SC_is_strongly_connected ==
    /\ alg.sc = NotRun
    /\ alg' = [alg EXCEPT !.sc = is_strongly_connected]
    /\ GraphFrame

SC_is_directed_acyclic ==
    /\ alg.dag = NotRun
    /\ \E certificate \in BOOLEAN :
          alg' = [alg EXCEPT !.dag = is_directed_acyclic(certificate)]
    /\ GraphFrame

NextSC == SC_is_strongly_connected \/ SC_is_directed_acyclic

SpecSC == InitSC /\ [][NextSC]_vars

\* C19: on an undirected graph is_strongly_connected and is_directed_acyclic
\* each signal an error, and no vertex is visited.
C19_UndirectedRefused ==
    ~directed
    => /\ alg.sc # NotRun => (alg.sc.exc # "none" /\ alg.sc.visited = 0)
       /\ alg.dag # NotRun => (alg.dag.exc # "none" /\ alg.dag.list = <<>>)

\* What the two functions do on an undirected graph: is_directed_acyclic
\* raises ValueError, is_strongly_connected raises nothing and answers
\* whether the graph is connected.
SC_UndirectedOutcome ==
    ~directed
    => /\ alg.dag # NotRun => alg.dag.exc = "ValueError"
       /\ alg.sc # NotRun
          => /\ alg.sc.exc = "none"
             /\ alg.sc.ret <=> \A i \in verts(cg) : Reach(Arcs, i) = verts(cg)

\* On a directed graph the answer is whether every vertex reaches every other.
SC_DirectedAnswer ==
    (directed /\ alg.sc # NotRun)
    => /\ alg.sc.exc = "none"
       /\ alg.sc.ret <=> \A i \in verts(cg) : Reach(Arcs, i) = verts(cg)

(***************************************************************************)
(* The size limit of floyd_warshall and all_pairs_shortest_path_BFS, on    *)
(* the edgeless graphs Graph(n) with n around <unsigned short> -1.  The    *)
(* tables of such a graph cannot be enumerated: a call is recorded by its  *)
(* size test, and by the largest distance a table of n ids can hold.       *)
(***************************************************************************)
LimitMargin == 40

LimitSizes == (USHORT_MAX - LimitMargin)..(USHORT_MAX + LimitMargin)

\* cg of Graph(n): ids 0..n-1, all active, no arc.
BigGraph(n) ==
    [size |-> n, active_vertices |-> 0..(n - 1), num_verts |-> n, num_arcs |-> 0]

\* n = max(gverts) + 1
limit_n == cg.size

size_test(too_large, n) ==
    IF too_large
    THEN [exc |-> "ValueError", tables |-> FALSE, n |-> n, longest |-> 0]
    ELSE [exc |-> "none", tables |-> TRUE, n |-> n, longest |-> n - 1]

InitLimit ==
    /\ kind = "sparse"
    /\ mode = "Backend"
    /\ directed = FALSE
    /\ \E n \in LimitSizes : cg = BigGraph(n)
    /\ cg_rev = NoGraph
    /\ vertex_ints = EmptyMap
    /\ vertex_labels = EmptyMap
    /\ edge_labels = EmptyMap
    /\ order = [i \in AlgIds |-> i]
    /\ last = [op |-> "init"]
    /\ alg = [op |-> "limit", fw |-> NotRun, bfs |-> NotRun]

LIM_floyd_warshall ==
    /\ alg.fw = NotRun
    /\ alg' = [alg EXCEPT !.fw = size_test(fw_too_large(limit_n), limit_n)]
    /\ GraphFrame

LIM_all_pairs_shortest_path_BFS ==
    /\ alg.bfs = NotRun
    /\ alg' = [alg EXCEPT !.bfs = size_test(bfs_too_large(limit_n), limit_n)]
    /\ GraphFrame

NextLimit == LIM_floyd_warshall \/ LIM_all_pairs_shortest_path_BFS

SpecLimit == InitLimit /\ [][NextLimit]_vars

\* C21: both functions raise ValueError, before any table is built, exactly
\* when the graph has more than 65535 ids (max active id + 1 > 65535), and in
\* an accepted graph no distance reaches the sentinel 65535.
C21_SameSizeLimit ==
    /\ alg.fw # NotRun
          => /\ alg.fw.exc = "ValueError" <=> limit_n > USHORT_MAX
             /\ alg.fw.tables => alg.fw.longest < USHORT_MAX
    /\ alg.bfs # NotRun
          => /\ alg.bfs.exc = "ValueError" <=> limit_n > USHORT_MAX
             /\ alg.bfs.tables => alg.bfs.longest < USHORT_MAX

\* What the code does: all_pairs_shortest_path_BFS refuses n > 65535,
\* floyd_warshall already refuses n = 65535; whatever is accepted keeps every
\* distance below the sentinel.
LIM_Limits ==
    /\ alg.bfs # NotRun
          => /\ alg.bfs.exc = "ValueError" <=> limit_n > USHORT_MAX
             /\ alg.bfs.tables => alg.bfs.longest < USHORT_MAX
    /\ alg.fw # NotRun
          => /\ alg.fw.exc = "ValueError" <=> limit_n >= USHORT_MAX
             /\ alg.fw.tables => alg.fw.longest < USHORT_MAX

(***************************************************************************)
(* shortest_path_all_vertices.                                             *)
(***************************************************************************)
\* [(u_int, v_int) for u_int in self._cg.out_neighbors(v_int)]
layer_of(v_int) ==
    LET nbrs == out_neighbors(cg, v_int, order)
    IN [i \in 1..Len(nbrs) |-> <<nbrs[i], v_int>>]

\* The inner "while current_layer": pop() takes the last pair.
RECURSIVE spav_layer(_)
spav_layer(st) ==
    IF st.current_layer = <<>> THEN st
    ELSE LET pair == st.current_layer[Len(st.current_layer)]
             v_int == pair[1]
             u_int == pair[2]
             rest == SubSeq(st.current_layer, 1, Len(st.current_layer) - 1)
         IN IF v_int \notin st.seen
            THEN spav_layer([st EXCEPT
                    !.current_layer = rest,
                    !.seen = @ \cup {v_int},
                    !.distances = Put(@, Label(v_int),
                                      Append(st.distances[Label(u_int)], Label(v_int))),
                    !.next_layer = @ \o layer_of(v_int)])
            ELSE spav_layer([st EXCEPT !.current_layer = rest])

\* Variant: the cutoff stops the search one layer later.
RECURSIVE spav_while_one_more_layer(_, _)
spav_while_one_more_layer(st, cutoff) ==
    IF st.current_layer = <<>> THEN st
    ELSE IF cutoff # None /\ st.d > cutoff[2] THEN st
    ELSE LET st1 == spav_layer(st)
         IN spav_while_one_more_layer(
               [st1 EXCEPT !.current_layer = st1.next_layer,
                           !.next_layer = <<>>,
                           !.d = @ + 1,
                           !.layers = @ + 1], cutoff)

\* The outer "while current_layer"
RECURSIVE spav_while(_, _)
spav_while(st, cutoff) ==
    IF st.current_layer = <<>> THEN st
    ELSE IF cutoff # None /\ st.d >= cutoff[2] THEN st
    ELSE LET st1 == spav_layer(st)
         IN spav_while([st1 EXCEPT !.current_layer = st1.next_layer,
                                   !.next_layer = <<>>,
                                   !.d = @ + 1,
                                   !.layers = @ + 1], cutoff)

shortest_path_all_vertices(v, cutoff) ==
    LET v_int == get_vertex(v, vertex_ints, vertex_labels, cg)
        st == spav_while([ seen |-> {v_int},
                           current_layer |-> layer_of(v_int),
                           next_layer |-> <<>>,
                           distances |-> Put(EmptyMap, v, <<v>>),
                           d |-> 0,
                           layers |-> 0 ], cutoff)
    IN [op |-> "shortest_path_all_vertices", v |-> v, cutoff |-> cutoff,
        distances |-> st.distances, layers |-> st.layers]

Cutoffs == {None} \cup {IntL(k) : k \in 0..MaxVerts}

InitPaths ==
    /\ GraphInit({"sparse", "dense"}, BOOLEAN, {AlgIds, AlgIds \ {0}}, TwoOrders)
    /\ edge_labels = EmptyMap
    /\ alg = Idle

SPAV_call ==
    /\ alg = Idle
    /\ \E v \in Vertices, cutoff \in Cutoffs :
          alg' = shortest_path_all_vertices(v, cutoff)
    /\ GraphFrame

NextPaths == SPAV_call

SpecPaths == InitPaths /\ [][NextPaths]_vars

Within(cutoff, d) == cutoff = None \/ d <= cutoff[2]

C23_WitnessUnreachable ==
    /\ alg # Idle
    /\ alg.cutoff = None
    /\ \E u \in DOMAIN alg.distances : Len(alg.distances[u]) = 2
    /\ directed
    /\ \E u \in Vertices : IdOfLabel(u) \notin Reach(Arcs, IdOfLabel(alg.v))

(***************************************************************************)
(* The predecessor tables of floyd_warshall and                            *)
(* all_pairs_shortest_path_BFS.                                            *)
(***************************************************************************)
Reachable(u, v) == IdOfLabel(v) \in Reach(Arcs, IdOfLabel(u))

\* prec is a predecessor table: None on the diagonal, and for v reachable
\* from u an in-neighbour w of v one arc nearer to u.
IsPredecessorTable(prec) ==
    \A u \in Vertices, v \in Vertices :
       /\ u = v => prec[u][v] = None
       /\ (u # v /\ Reachable(u, v))
             => LET w == prec[u][v] IN
                /\ w \in Vertices
                /\ <<IdOfLabel(w), IdOfLabel(v)>> \in Arcs
                /\ Distance(Arcs, IdOfLabel(u), IdOfLabel(v))
                      = 1 + Distance(Arcs, IdOfLabel(u), IdOfLabel(w))

FwPaths == alg.fw # NotRun /\ alg.fw.exc = "none" /\ alg.fw.paths
BfsPaths == alg.bfs # NotRun /\ alg.bfs.exc = "none"

\* C22: in the tables of floyd_warshall(paths=True) and of
\* all_pairs_shortest_path_BFS, paths[u][v] for u # v and v reachable from u
\* is an in-neighbour w of v with dist(u, v) = 1 + dist(u, w), and
\* paths[u][u] is None.
C22_PredecessorTables ==
    /\ FwPaths => IsPredecessorTable(alg.fw.prec)
    /\ BfsPaths => IsPredecessorTable(alg.bfs.prec)

\* Both tables were built for a directed relabelled graph with a loop in which
\* some vertex is two arcs away from another.
C22_Witness ==
    /\ FwPaths
    /\ BfsPaths
    /\ directed
    /\ vertex_labels # EmptyMap
    /\ \E i \in verts(cg) : <<i, i>> \in Arcs
    /\ \E u \in Vertices, v \in Vertices :
          Distance(Arcs, IdOfLabel(u), IdOfLabel(v)) = 2

\* C30: for v unreachable from u, the entry paths[u][v] of
\* floyd_warshall(paths=True) is None, as it is in the table of
\* all_pairs_shortest_path_BFS.
C30_UnreachableIsNone ==
    FwPaths
    => \A u \in Vertices, v \in Vertices :
          ~Reachable(u, v) => alg.fw.prec[u][v] = None

\* What the two functions store for an unreachable pair:
\* all_pairs_shortest_path_BFS None, floyd_warshall the label of id 0 (the
\* table is cleared to 0), which is None only when id 0 is not a vertex.
AP_UnreachableEntries ==
    \A u \in Vertices, v \in Vertices :
       ~Reachable(u, v)
       => /\ BfsPaths => alg.bfs.prec[u][v] = None
          /\ FwPaths => alg.fw.prec[u][v] = Label(0)

(***************************************************************************)
(* Properties of the single Backend calls.  The unprimed variables are the *)
(* backend the call was made on, the primed ones the backend it left.      *)
(***************************************************************************)
BackendCalled(op) == mode = "Backend" /\ last'.op = op

IdAfter(l) == get_vertex(l, vertex_ints', vertex_labels', cg')
LabelAfter(i) == vertex_label(i, vertex_ints', vertex_labels', cg')
HasVertexAfter(l) ==
    Backend_has_vertex(l, [cg |-> cg', cg_rev |-> cg_rev',
                           vertex_ints |-> vertex_ints',
                           vertex_labels |-> vertex_labels'])

\* B2 is B with the same storage and the labels renamed along perm.
RenamedBy(perm, B, B2) ==
    /\ B2.cg = B.cg
    /\ B2.cg_rev = B.cg_rev
    /\ \A v \in DOMAIN perm :
          LET i == get_vertex(v, B.vertex_ints, B.vertex_labels, B.cg) IN
          /\ get_vertex(perm[v], B2.vertex_ints, B2.vertex_labels, B2.cg) = i
          /\ vertex_label(i, B2.vertex_ints, B2.vertex_labels, B2.cg) = perm[v]
    /\ {l \in Labels : Backend_has_vertex(l, B2)} = {perm[v] : v \in DOMAIN perm}

\* C24: relabel(perm) leaves the CGraph storage as it was and renames the
\* labels only: perm[v] has the id v had, that id translates back to perm[v],
\* and the number of vertices is the same.  Stated of the backend that
\* relabel(perm) leaves, for every backend reached and every perm it can be
\* called with there.
C24_RelabelRenamesOnly ==
    mode = "Backend"
    => \A perm \in RelabelPerms : RenamedBy(perm, Backend, relabel(perm, Backend))

\* relabel has run on a backend with a deleted id and at least two vertices,
\* one of them an integer that is not its own id, another one not an integer.
C24_Witness ==
    /\ last.op = "Backend.relabel"
    /\ cg.num_verts >= 2
    /\ cg.num_verts < cg.size
    /\ \E l \in DOMAIN vertex_ints : IsInt(l) /\ vertex_ints[l] # l[2]
    /\ \E l \in DOMAIN vertex_ints : ~IsInt(l)

\* C25: in a directed backend with a reverse mirror, after any sequence of
\* Backend add_vertex / del_vertex calls the forward and the reverse CGraph
\* have the same capacity, the same active_vertices and the same num_verts.
C25_MirrorFollows ==
    Reverse
    => /\ cg_rev.size = cg.size
       /\ cg_rev.active_vertices = cg.active_vertices
       /\ cg_rev.num_verts = cg.num_verts

\* add_vertex has just doubled both graphs of a backend with a mirror.
C25_Witness ==
    /\ Reverse
    /\ last.op = "Backend.add_vertex"
    /\ cg.size = 2 * last.pre_size
    /\ cg_rev.size = cg.size
    /\ cg.num_verts = last.pre_verts + 1

\* del_vertex has just removed a vertex from both graphs.
C25_WitnessDel ==
    /\ Reverse
    /\ last.op = "Backend.del_vertex"
    /\ cg.num_verts = last.pre_verts - 1
    /\ cg_rev.num_verts = cg.num_verts
    /\ cg.num_verts >= 1

\* C28: Backend.add_vertex(label) for a label that is not a vertex ends with
\* has_vertex(label) true and num_verts one higher, and every other label
\* is a vertex exactly if it was one, with the id it had.
C28_AddVertexAddsOne ==
    [][(BackendCalled("Backend.add_vertex")
        /\ last'.arg # None
        /\ ~Backend_has_vertex(last'.arg, Backend))
       => /\ HasVertexAfter(last'.arg)
          /\ cg'.num_verts = cg.num_verts + 1
          /\ \A l \in Labels \ {last'.arg} :
                /\ HasVertexAfter(l) <=> Backend_has_vertex(l, Backend)
                /\ Backend_has_vertex(l, Backend) => IdAfter(l) = IdOf(l)]_vars

\* A label that is not an integer was added to a full graph, which doubled.
C28_Witness ==
    /\ last.op = "Backend.add_vertex"
    /\ last.arg # None
    /\ ~IsInt(last.arg)
    /\ last.arg \in DOMAIN vertex_ints
    /\ cg.size = 2 * last.pre_size
    /\ cg.num_verts = last.pre_verts + 1
    /\ cg.num_verts >= 2

\* An integer outside the allocation was added where an id was free.
C28_WitnessOutside ==
    /\ last.op = "Backend.add_vertex"
    /\ last.arg # None
    /\ IsInt(last.arg)
    /\ (last.arg[2] < 0 \/ last.arg[2] >= cg.size)
    /\ last.arg \in DOMAIN vertex_ints
    /\ cg.size = last.pre_size
    /\ cg.num_verts = last.pre_verts + 1

(***************************************************************************)
(* Termination of the Search_iterator: the caller keeps calling next()     *)
(* until StopIteration, on graphs with circuits, loops and parallel arcs.  *)
(***************************************************************************)
\* G with a second copy of every arc of P.
RECURSIVE WithParallel(_, _)
WithParallel(G, P) ==
    IF P = {} THEN G
    ELSE LET p == CHOOSE q \in P : TRUE
         IN WithParallel(add_arc_unsafe(G, p[1], p[2], "sparse"), P \ {p})

InitTermination ==
    /\ kind = "sparse"
    /\ mode = "Backend"
    /\ directed \in BOOLEAN
    /\ order = [i \in AlgIds |-> i]
    /\ \E A0 \in SubsetsUpTo(AlgIds \X AlgIds, MaxEdges) :
          LET A == IF directed THEN A0 ELSE A0 \cup Transpose(A0)
              P == A
          IN /\ cg = WithParallel(GraphOf(MaxVerts, AlgIds, A), P)
             /\ cg_rev = IF directed
                         THEN WithParallel(GraphOf(MaxVerts, AlgIds, Transpose(A)),
                                           Transpose(P))
                         ELSE NoGraph
    /\ vertex_ints = EmptyMap
    /\ vertex_labels = EmptyMap
    /\ edge_labels = EmptyMap
    /\ last = [op |-> "init", arg |-> <<>>, exc |-> "none", ret |-> 0,
               pre_size |-> 0, pre_verts |-> 0, pre_arcs |-> 0]
    /\ alg = Idle

\* A search along the out-arcs.  A search against the arcs is this search on
\* the transposed graph and a search ignoring directions this search on the
\* undirected graph, both among the graphs of InitTermination.
TERM_create ==
    /\ alg = Idle
    /\ \E v \in Vertices, direction \in {0, 0 - 1} :
          alg' = Search_iterator_init(v, direction, FALSE, FALSE)
    /\ GraphFrame

NextTermination == TERM_create \/ SI_next

\* The caller (a for loop, list()) calls next() until StopIteration.
SpecTermination ==
    InitTermination /\ [][NextTermination]_vars /\ WF_vars(SI_next)

Searching == alg # Idle
Stopped == alg # Idle /\ alg.stopped

\* C26: repeated next() calls yield at most num_verts vertices and then
\* raise StopIteration, first-in-first-out or last-in-first-out.
C26_SearchStops ==
    /\ [](Searching => Len(alg.yielded) <= cg.num_verts)
    /\ Searching ~> Stopped

\* A depth-first search has stopped after yielding every vertex of a graph
\* with a circuit through the start vertex, a loop and a parallel arc.
C26_Witness ==
    /\ Stopped
    /\ alg.direction = 0 - 1
    /\ Len(alg.yielded) = cg.num_verts
    /\ \E p \in Arcs : p[1] # p[2] /\ p[1] \in Reach(Arcs, p[2]) /\ alg.start = p[1]
    /\ \E i \in verts(cg) : <<i, i>> \in Arcs
    /\ \E p \in Arcs : cg.arcs[p] >= 2

\* The same for a breadth-first search.
C26_WitnessFIFO ==
    /\ Stopped
    /\ alg.direction = 0
    /\ Len(alg.yielded) = cg.num_verts
    /\ \E p \in Arcs : p[1] # p[2] /\ p[1] \in Reach(Arcs, p[2]) /\ alg.start = p[1]
    /\ \E i \in verts(cg) : <<i, i>> \in Arcs
    /\ \E p \in Arcs : cg.arcs[p] >= 2

(***************************************************************************)
(* The rounds of shortest_path.  A round has the side (out), the list the  *)
(* side started with (frontier), the list at its end (walked) and the      *)
(* vertices whose neighbours were studied in it (studied).                 *)
(***************************************************************************)
SpRounds == IF alg # Idle /\ alg.returns = "list" THEN alg.rounds ELSE <<>>

\* C27: in every round of shortest_path the current side studies the
\* vertices of its frontier only, and the sides take turns.
C27_SidesAlternateByLayer ==
    /\ \A i \in 1..Len(SpRounds) :
          Range(SpRounds[i].studied) \subseteq Range(SpRounds[i].frontier)
    /\ \A i \in 1..(Len(SpRounds) - 1) : SpRounds[i + 1].out = 0 - SpRounds[i].out

\* What the code does: the new vertices are appended to the list the round
\* is walking, so a round that does not meet the other side studies every
\* vertex its side can reach, and there are never more than two rounds.
SP_RoundsRunToTheEnd ==
    /\ Len(SpRounds) <= 2
    /\ \A i \in 1..(Len(SpRounds) - 1) : SpRounds[i + 1].out = 0 - SpRounds[i].out
    /\ (Len(SpRounds) = 2 \/ (Len(SpRounds) = 1 /\ alg.list = <<>>))
          => Range(SpRounds[1].studied) = Reach(Arcs, IdOfLabel(alg.x))

(***************************************************************************)
(* The order of a breadth-first search.  A depth-first and a breadth-first *)
(* search can only differ in the order of distances when two vertices are  *)
(* one arc away from the start and a third is two arcs away: the graphs    *)
(* have BfsVerts vertices.                                                 *)
(***************************************************************************)
BfsVerts == 4

BfsIds == 0..(BfsVerts - 1)

InitBFS ==
    /\ kind = "sparse"
    /\ mode = "Backend"
    /\ directed \in BOOLEAN
    /\ order \in {[i \in BfsIds |-> i], [i \in BfsIds |-> BfsVerts - 1 - i]}
    /\ \E A0 \in SubsetsUpTo(BfsIds \X BfsIds, MaxEdges) :
          LET A == IF directed THEN A0 ELSE A0 \cup Transpose(A0)
          IN /\ cg = GraphOf(BfsVerts, BfsIds, A)
             /\ cg_rev = IF directed THEN GraphOf(BfsVerts, BfsIds, Transpose(A))
                         ELSE NoGraph
    /\ vertex_ints = EmptyMap
    /\ vertex_labels = EmptyMap
    /\ edge_labels = EmptyMap
    /\ last = [op |-> "init", arg |-> <<>>, exc |-> "none", ret |-> 0,
               pre_size |-> 0, pre_verts |-> 0, pre_arcs |-> 0]
    /\ alg = Idle

\* breadth_first_search(v)
BFS_create ==
    /\ alg = Idle
    /\ \E v \in Vertices : alg' = Search_iterator_init(v, 0, FALSE, FALSE)
    /\ GraphFrame

NextBFS == BFS_create \/ SI_next

SpecBFS == InitBFS /\ [][NextBFS]_vars

\* The number of arcs from the start of the search to the vertex labelled l.
SearchDistance(l) == Distance(SearchArcs(alg), alg.start, IdOfLabel(l))

\* C29: a breadth-first Search_iterator (direction 0) yields the vertices by
\* non-decreasing distance from the start vertex.
C29_BreadthFirstOrder ==
    (alg # Idle /\ alg.direction = 0)
    => \A i, j \in 1..Len(alg.yielded) :
          i < j => SearchDistance(alg.yielded[i]) <= SearchDistance(alg.yielded[j])

\* A breadth-first search of a directed graph has stopped after yielding
\* two vertices one arc away and then a vertex two arcs away that is a
\* neighbour of the second of them.
C29_Witness ==
    /\ alg # Idle
    /\ alg.stopped
    /\ alg.direction = 0
    /\ directed
    /\ Len(alg.yielded) = 4
    /\ SearchDistance(alg.yielded[2]) = 1
    /\ SearchDistance(alg.yielded[3]) = 1
    /\ SearchDistance(alg.yielded[4]) = 2
    /\ <<IdOfLabel(alg.yielded[3]), IdOfLabel(alg.yielded[4])>> \in Arcs

====
